---- MODULE Spec2Model ----
(***************************************************************************)
(* Model of the blob localization / point-set registration pipeline of     *)
(* holographic_stimulation_accuracy (src/image_processing.py, src/main.py). *)
(*                                                                         *)
(* Numbers: the code computes in IEEE doubles; the model computes in exact *)
(* rational arithmetic (a rational is a pair <<n, d>>, d > 0, in lowest    *)
(* terms).  An angle is carried by the primitive integer direction vector  *)
(* <<dx, dy>> of (cos, sin); its cosine and sine are rational exactly when  *)
(* dx^2 + dy^2 is a perfect square.  Floating-point rounding is not        *)
(* modelled.                                                               *)
(***************************************************************************)
EXTENDS Integers, Sequences, FiniteSets, TLC

VARIABLES pc, call, ret, used_indices, ordered_points, chosen, config

vars == <<pc, call, ret, used_indices, ordered_points, chosen, config>>

(***************************************************************************)
(* Bounds of the model.                                                    *)
(***************************************************************************)
MaxRef == 2
MaxCand == 3
MaxBlobs == 4
MaxSpacing == 3
MaxDepth == 5
MaxPts == 2
MaxFit == 2
MaxRank == 4
MaxCount == 2

(***************************************************************************)
(* Integer and rational arithmetic.                                        *)
(***************************************************************************)
Abs(x) == IF x < 0 THEN -x ELSE x

RECURSIVE Gcd(_, _)
Gcd(a, b) == IF b = 0 THEN a ELSE Gcd(b, a % b)

\* Python's int(x) on a float x = a / 2: truncation toward zero.
TruncHalf(a) == IF a >= 0 THEN a \div 2 ELSE -((-a) \div 2)

Norm(n, d) ==
    LET g == Gcd(Abs(n), Abs(d))
        s == IF d < 0 THEN -1 ELSE 1
    IN <<(s * n) \div g, (s * d) \div g>>

Rat(n) == <<n, 1>>
RAdd(p, q) == Norm(p[1] * q[2] + q[1] * p[2], p[2] * q[2])
RNeg(p) == <<-p[1], p[2]>>
RSub(p, q) == RAdd(p, RNeg(q))
RMul(p, q) == Norm(p[1] * q[1], p[2] * q[2])
RInv(p) == Norm(p[2], p[1])
RDiv(p, q) == RMul(p, RInv(q))
RZero == <<0, 1>>
ROne == <<1, 1>>

\* Integer square root (largest r with r * r <= n), n >= 0.
ISqrt(n) == CHOOSE r \in 0..n : r * r <= n /\ (r + 1) * (r + 1) > n
IsSquare(n) == n >= 0 /\ ISqrt(n) * ISqrt(n) = n

(***************************************************************************)
(* Points: a 2D point is a pair of rationals (row, column).                *)
(***************************************************************************)
Pt(x, y) == <<Rat(x), Rat(y)>>
PAdd(p, q) == <<RAdd(p[1], q[1]), RAdd(p[2], q[2])>>
PSub(p, q) == <<RSub(p[1], q[1]), RSub(p[2], q[2])>>
PScale(p, s) == <<RMul(p[1], s), RMul(p[2], s)>>

RECURSIVE SeqsUpTo(_, _)
SeqsUpTo(S, n) ==
    IF n = 0 THEN {<<>>}
    ELSE LET prev == SeqsUpTo(S, n - 1)
         IN prev \cup {Append(s, x) : s \in {t \in prev : Len(t) = n - 1}, x \in S}

RECURSIVE SumSeq(_)
SumSeq(s) == IF s = <<>> THEN RZero ELSE RAdd(Head(s), SumSeq(Tail(s)))

None == [kind |-> "none"]
NoCall == [op |-> "none"]

(***************************************************************************)
(* add_z (src/image_processing.py:46-67).                                  *)
(***************************************************************************)
\* middle_index = int((z_size - 1) / 2)
middle_index(z_size) == TruncHalf(z_size - 1)

\* The half-range with the half truncated before the multiplication.
z_half_range_floor_first(number_of_blobs, z_spacing) ==
    TruncHalf(number_of_blobs - 1) * z_spacing

\* z_half_range = int((number_of_blobs - 1) / 2 * z_spacing): the product is
\* formed in floating point before int() truncates it.
z_half_range(number_of_blobs, z_spacing) ==
    TruncHalf((number_of_blobs - 1) * z_spacing)

\* indices[ii] = middle_index + z_half_range - ii * z_spacing (ii is 0-indexed;
\* position i of the TLA+ sequence is ii = i - 1).
z_indices(number_of_blobs, z_spacing, z_size) ==
    [i \in 1..number_of_blobs |->
        middle_index(z_size) + z_half_range(number_of_blobs, z_spacing)
            - (i - 1) * z_spacing]

\* np.hstack((indices.reshape(-1, 1), points)): row i is (z_i, row_i, col_i).
add_z(points, z_spacing, z_size) ==
    LET idx == z_indices(Len(points), z_spacing, z_size)
    IN [i \in 1..Len(points) |-> <<Rat(idx[i]), points[i][1], points[i][2]>>]

(***************************************************************************)
(* find_closest_regions (src/image_processing.py:137-160).                 *)
(* Indices are 1-based here (position i is the code's index i - 1).        *)
(***************************************************************************)
\* Squared Euclidean distance; cKDTree.query orders candidates by the
\* Euclidean distance, which orders them as its square does.
SqDist(p, q) ==
    LET dx == RSub(p[1], q[1])
        dy == RSub(p[2], q[2])
    IN RAdd(RMul(dx, dx), RMul(dy, dy))

RLess(p, q) == p[1] * q[2] < q[1] * p[2]

\* [ii for ii in range(len(auto_points)) if ii not in used_indices]
RECURSIVE available_from(_, _, _)
available_from(n, used, i) ==
    IF i > n THEN <<>>
    ELSE (IF i \in used THEN <<>> ELSE <<i>>) \o available_from(n, used, i + 1)

\* A pool that never shrinks.
available_indices_all(auto_points, used) == available_from(Len(auto_points), {}, 1)

available_indices(auto_points, used) == available_from(Len(auto_points), used, 1)

\* tree.query(point) over the available points: the position of the nearest
\* one; among equally near points the scan of the tree's single leaf keeps
\* the first (a later point replaces the best only when strictly nearer).
\* The first available candidate, whatever its distance.
query_first_available(point, auto_points, avail) ==
    CHOOSE j \in 1..Len(avail) : j = 1

query(point, auto_points, avail) ==
    CHOOSE j \in 1..Len(avail) :
        /\ \A m \in 1..Len(avail) :
             ~RLess(SqDist(point, auto_points[avail[m]]), SqDist(point, auto_points[avail[j]]))
        /\ \A m \in 1..(j - 1) :
             RLess(SqDist(point, auto_points[avail[j]]), SqDist(point, auto_points[avail[m]]))

\* The nearest of all candidates, taken or not.
closest_global_idx_any(point, auto_points, used) ==
    LET all == available_from(Len(auto_points), {}, 1)
    IN all[query(point, auto_points, all)]

\* closest_global_idx = [ii ... if ii not in used_indices][closest_idx]
closest_global_idx(point, auto_points, used) ==
    LET avail == available_indices(auto_points, used)
    IN avail[query(point, auto_points, avail)]

MatchPts == {Pt(0, 0), Pt(0, 2), Pt(1, 1), Pt(3, 0)}
MatchRefs == SeqsUpTo(MatchPts, MaxRef)
MatchCands == SeqsUpTo(MatchPts, MaxCand)

\* The call: used_indices = set(); ordered_points = [] (lines 148-149).
find_closest_regions_call ==
    /\ pc = "idle"
    /\ \E napari_points \in MatchRefs, auto_points \in MatchCands :
         call' = [op |-> "find_closest_regions",
                  napari_points |-> napari_points, auto_points |-> auto_points]
    /\ pc' = "match"
    /\ used_indices' = {}
    /\ ordered_points' = <<>>
    /\ chosen' = <<>>
    /\ ret' = None
    /\ UNCHANGED config

\* One iteration of the for loop (lines 151-158).  cKDTree refuses an empty
\* point array (it is not of shape (n, m)) by raising ValueError.
find_closest_regions_step ==
    /\ pc = "match"
    /\ Len(ordered_points) < Len(call.napari_points)
    /\ LET point == call.napari_points[Len(ordered_points) + 1]
           avail == available_indices(call.auto_points, used_indices)
       IN IF avail = <<>>
          THEN /\ ret' = [kind |-> "error", error |-> "ValueError"]
               /\ pc' = "done"
               /\ UNCHANGED <<used_indices, ordered_points, chosen>>
          ELSE LET g == closest_global_idx(point, call.auto_points, used_indices)
               IN /\ ordered_points' = Append(ordered_points, call.auto_points[g])
                  /\ used_indices' = used_indices \cup {g}
                  /\ chosen' = Append(chosen, g)
                  /\ UNCHANGED <<pc, ret>>
    /\ UNCHANGED <<call, config>>

\* return np.array(ordered_points) (line 160).
find_closest_regions_return ==
    /\ pc = "match"
    /\ Len(ordered_points) = Len(call.napari_points)
    /\ ret' = [kind |-> "value", value |-> ordered_points]
    /\ pc' = "done"
    /\ UNCHANGED <<call, used_indices, ordered_points, chosen, config>>

(***************************************************************************)
(* Calls of add_z.                                                         *)
(***************************************************************************)
ZPlane == {Pt(0, 0), Pt(1, 2)}
ZPointSets == SeqsUpTo(ZPlane, MaxBlobs)

add_z_call ==
    /\ pc = "idle"
    /\ \E points \in ZPointSets, z_spacing \in (-MaxSpacing)..MaxSpacing, z_size \in 1..MaxDepth :
         /\ call' = [op |-> "add_z", points |-> points,
                     z_spacing |-> z_spacing, z_size |-> z_size]
         /\ ret' = [kind |-> "value", value |-> add_z(points, z_spacing, z_size)]
    /\ pc' = "done"
    /\ UNCHANGED <<used_indices, ordered_points, chosen, config>>

\* The caller is done with the result; the next call starts afresh.
Finish ==
    /\ pc = "done"
    /\ pc' = "idle"
    /\ call' = NoCall
    /\ ret' = None
    /\ used_indices' = {}
    /\ ordered_points' = <<>>
    /\ chosen' = <<>>
    /\ UNCHANGED config

(***************************************************************************)
(* Angles.  An angle is the primitive integer direction <<dx, dy>> of      *)
(* (cos, sin); np.cos and np.sin are exact on the angles whose hypotenuse  *)
(* is an integer.                                                          *)
(***************************************************************************)
Angle0 == <<1, 0>>
QuarterTurn == <<0, 1>>
NegAngle(a) == <<a[1], -a[2]>>
Hyp(a) == ISqrt(a[1] * a[1] + a[2] * a[2])
IsExactAngle(a) == IsSquare(a[1] * a[1] + a[2] * a[2])
Cos(a) == Norm(a[1], Hyp(a))
Sin(a) == Norm(a[2], Hyp(a))

\* The direction of the vector (x, y) of rationals, (x, y) # (0, 0).
Direction(x, y) ==
    LET ix == x[1] * y[2]
        iy == y[1] * x[2]
        g == Gcd(Abs(ix), Abs(iy))
    IN <<ix \div g, iy \div g>>

(***************************************************************************)
(* create_rotation_matrix (src/image_processing.py:162-178).  A one-element *)
(* array <<a>> (what the minimizer passes) is unwrapped to its element.     *)
(***************************************************************************)
\* A matrix without the minus sign of the upper right entry.
create_rotation_matrix_no_minus(angle) ==
    LET a == IF Len(angle) = 1 THEN angle[1] ELSE angle
        c == Cos(a)
        s == Sin(a)
    IN <<<<c, s>>, <<s, c>>>>

create_rotation_matrix(angle) ==
    LET a == IF Len(angle) = 1 THEN angle[1] ELSE angle
        c == Cos(a)
        s == Sin(a)
    IN <<<<c, RNeg(s)>>, <<s, c>>>>

\* np.dot(coordinates, rotation_matrix.T): row i is rotation_matrix applied
\* to point i.
dot_transposed(coordinates, m) ==
    [i \in 1..Len(coordinates) |->
        <<RAdd(RMul(m[1][1], coordinates[i][1]), RMul(m[1][2], coordinates[i][2])),
          RAdd(RMul(m[2][1], coordinates[i][1]), RMul(m[2][2], coordinates[i][2]))>>]

(***************************************************************************)
(* transform_coordinates (src/image_processing.py:226-246).                *)
(***************************************************************************)
\* The rotation applied with the fitted angle's own sign.
transform_coordinates_same_sign(points_1, center_1, center_2, scaling_factor, angle) ==
    LET coordinates_centered == [i \in 1..Len(points_1) |-> PSub(points_1[i], center_1)]
        coordinates_scaled ==
            [i \in 1..Len(points_1) |-> PScale(coordinates_centered[i], scaling_factor)]
        rotation_matrix == create_rotation_matrix(angle)
        coordinates_rotated == dot_transposed(coordinates_scaled, rotation_matrix)
    IN [i \in 1..Len(points_1) |-> PAdd(coordinates_rotated[i], center_2)]

transform_coordinates(points_1, center_1, center_2, scaling_factor, angle) ==
    LET coordinates_centered == [i \in 1..Len(points_1) |-> PSub(points_1[i], center_1)]
        coordinates_scaled ==
            [i \in 1..Len(points_1) |-> PScale(coordinates_centered[i], scaling_factor)]
        rotation_matrix == create_rotation_matrix(NegAngle(angle))
        coordinates_rotated == dot_transposed(coordinates_scaled, rotation_matrix)
    IN [i \in 1..Len(points_1) |-> PAdd(coordinates_rotated[i], center_2)]

TPts == {Pt(0, 0), Pt(1, 2), Pt(3, 1)}
TPointSets == SeqsUpTo(TPts, MaxPts)
TCenters == {Pt(0, 0), <<<<1, 2>>, <<1, 1>>>>, Pt(2, 1)}
TScales == {<<0, 1>>, <<1, 2>>, <<2, 1>>, <<-1, 1>>, <<5, 3>>}
TAngles == {<<1, 0>>, <<0, 1>>, <<-1, 0>>, <<0, -1>>, <<3, 4>>, <<-4, 3>>, <<4, -3>>, <<5, 12>>}

transform_coordinates_call ==
    /\ pc = "idle"
    /\ \E points_1 \in TPointSets, center_1 \in TCenters, center_2 \in TCenters,
          scaling_factor \in TScales, angle \in TAngles :
         /\ call' = [op |-> "transform_coordinates", points_1 |-> points_1,
                     center_1 |-> center_1, center_2 |-> center_2,
                     scaling_factor |-> scaling_factor, angle |-> angle]
         /\ ret' = [kind |-> "value",
                    value |-> transform_coordinates(points_1, center_1, center_2,
                                                    scaling_factor, angle)]
    /\ pc' = "done"
    /\ UNCHANGED <<used_indices, ordered_points, chosen, config>>

IsTransformCall == call.op = "transform_coordinates"

\* C4: transforming with (c1, c2, s, theta), s # 0, and then with
\* (c2, c1, 1/s, -theta) gives back the points, each at its position.
C4_InverseRoundTrip ==
    (IsTransformCall /\ call.scaling_factor # RZero) =>
        /\ Len(ret.value) = Len(call.points_1)
        /\ transform_coordinates(ret.value, call.center_2, call.center_1,
                                 RInv(call.scaling_factor), NegAngle(call.angle))
             = call.points_1

\* Two points moved by a transform that is neither a pure scaling nor a quarter turn.
C4_Witness ==
    /\ IsTransformCall
    /\ pc = "done"
    /\ Len(call.points_1) = 2
    /\ call.points_1[1] # call.points_1[2]
    /\ call.angle = <<3, 4>>
    /\ call.scaling_factor = <<5, 3>>
    /\ call.center_1 # call.center_2
    /\ ret.value[1] # call.points_1[1]
    /\ ret.value[2] # call.points_1[2]

(***************************************************************************)
(* find_transform (src/image_processing.py:196-224) and the objective      *)
(* calculate_rmse_after_rotation (lines 180-194).                          *)
(***************************************************************************)
Column(points, j) == [i \in 1..Len(points) |-> points[i][j]]

\* A centre that is the coordinate sum: the division by the count is missing.
mean_not_divided(points) ==
    <<SumSeq(Column(points, 1)), SumSeq(Column(points, 2))>>

\* np.mean(points, axis=0)
mean(points) ==
    <<RDiv(SumSeq(Column(points, 1)), Rat(Len(points))),
      RDiv(SumSeq(Column(points, 2)), Rat(Len(points)))>>

centered(points, center) == [i \in 1..Len(points) |-> PSub(points[i], center)]

\* np.linalg.norm(points) squared: the sum of the squares of all coordinates.
norm_squared(points) ==
    SumSeq([i \in 1..Len(points) |->
        RAdd(RMul(points[i][1], points[i][1]), RMul(points[i][2], points[i][2]))])

\* scaling_factor = norm_2 / norm_1 on numpy floats: a zero divisor gives nan
\* (0/0) or inf (x/0) with a warning and no exception.  A quotient whose
\* square is not the square of a rational is kept as the surd of its square.
scaling_factor_of(norm_1_squared, norm_2_squared) ==
    IF norm_1_squared = RZero
    THEN [kind |-> IF norm_2_squared = RZero THEN "nan" ELSE "inf"]
    ELSE LET q == RDiv(norm_2_squared, norm_1_squared)
         IN IF IsSquare(q[1]) /\ IsSquare(q[2])
            THEN [kind |-> "rat", v |-> <<ISqrt(q[1]), ISqrt(q[2])>>]
            ELSE [kind |-> "surd", sq |-> q]

\* sklearn's mean_squared_error validates its inputs before computing: arrays
\* of different lengths, and arrays holding nan, raise ValueError.  scaled_1
\* holds nan exactly when the scaling factor is nan or inf (then every
\* centred coordinate is 0, and 0 * inf is nan).
objective_raises(points_1, points_2, scaling_factor) ==
    \/ Len(points_1) # Len(points_2)
    \/ scaling_factor.kind \in {"nan", "inf"}

\* mean_squared_error(reference_coordinates, rotated_coordinates): the mean
\* over all points and both coordinates of the squared difference.
calculate_rmse_after_rotation(angle, reference_coordinates, coordinates_to_be_rotated) ==
    LET rotation_matrix == create_rotation_matrix(angle)
        rotated_coordinates == dot_transposed(coordinates_to_be_rotated, rotation_matrix)
        n == Len(reference_coordinates)
    IN RDiv(SumSeq([i \in 1..n |->
                SqDist(reference_coordinates[i], rotated_coordinates[i])]),
            Rat(2 * n))

\* The objective is K - (C cos a + S sin a) * scale / n with
\*   C = sum of A_i . B_i,   S = sum of (A_i.y * B_i.x - A_i.x * B_i.y),
\* A the centred points_1 and B the centred points_2.
fit_cos_part(a, b) ==
    SumSeq([i \in 1..Len(a) |-> RAdd(RMul(a[i][1], b[i][1]), RMul(a[i][2], b[i][2]))])

fit_sin_part(a, b) ==
    SumSeq([i \in 1..Len(a) |-> RSub(RMul(a[i][2], b[i][1]), RMul(a[i][1], b[i][2]))])

\* minimize(objective, 0, method="L-BFGS-B").  A run that reports failure
\* carries the optimizer's message.  A successful run stays at the start 0
\* when the objective is stationary there (S = 0, or a zero scale, which
\* makes the objective constant) and otherwise descends to the minimum of
\* the sinusoid, the angle of direction (C, S).  x is a one-element array.
minimize(centered_points_1, centered_points_2, scaling_factor, optimizer_ok) ==
    IF ~optimizer_ok
    THEN [success |-> FALSE, message |-> "ABNORMAL_TERMINATION_IN_LNSRCH"]
    ELSE LET c == fit_cos_part(centered_points_1, centered_points_2)
             s == fit_sin_part(centered_points_1, centered_points_2)
             zero_scale == scaling_factor.kind = "rat" /\ scaling_factor.v = RZero
         IN [success |-> TRUE,
             x |-> <<IF s = RZero \/ zero_scale THEN Angle0 ELSE Direction(c, s)>>]

\* A fit that does not look at result.success.
find_transform_unchecked(points_1, points_2, optimizer_ok) ==
    LET center_of_mass_1 == mean(points_1)
        center_of_mass_2 == mean(points_2)
        centered_points_1 == centered(points_1, center_of_mass_1)
        centered_points_2 == centered(points_2, center_of_mass_2)
        scaling_factor ==
            scaling_factor_of(norm_squared(centered_points_1), norm_squared(centered_points_2))
        result == minimize(centered_points_1, centered_points_2, scaling_factor, TRUE)
    IN IF objective_raises(points_1, points_2, scaling_factor)
       THEN [kind |-> "error", error |-> "ValueError", message |-> "invalid input to the objective"]
       ELSE [kind |-> "value", center_1 |-> center_of_mass_1,
             center_2 |-> center_of_mass_2, scaling_factor |-> scaling_factor,
             angle |-> result.x[1]]

find_transform(points_1, points_2, optimizer_ok) ==
    LET center_of_mass_1 == mean(points_1)
        center_of_mass_2 == mean(points_2)
        centered_points_1 == centered(points_1, center_of_mass_1)
        centered_points_2 == centered(points_2, center_of_mass_2)
        scaling_factor ==
            scaling_factor_of(norm_squared(centered_points_1), norm_squared(centered_points_2))
        result == minimize(centered_points_1, centered_points_2, scaling_factor, optimizer_ok)
    IN IF objective_raises(points_1, points_2, scaling_factor)
       THEN [kind |-> "error", error |-> "ValueError", message |-> "invalid input to the objective"]
       ELSE IF ~result.success
       THEN [kind |-> "error", error |-> "ValueError",
             message |-> "Optimization failed: " \o result.message]
       ELSE [kind |-> "value", center_1 |-> center_of_mass_1,
             center_2 |-> center_of_mass_2, scaling_factor |-> scaling_factor,
             angle |-> result.x[1]]

FitPts == {Pt(2, 1), Pt(2, 3), Pt(4, 2), Pt(0, 2)}
FitPointSets == SeqsUpTo(FitPts, MaxFit) \ {<<>>}

find_transform_call ==
    /\ pc = "idle"
    /\ \E points_1 \in FitPointSets, points_2 \in FitPointSets, optimizer_ok \in BOOLEAN :
         /\ call' = [op |-> "find_transform", points_1 |-> points_1,
                     points_2 |-> points_2, optimizer_ok |-> optimizer_ok]
         /\ ret' = find_transform(points_1, points_2, optimizer_ok)
    /\ pc' = "done"
    /\ UNCHANGED <<used_indices, ordered_points, chosen, config>>

(***************************************************************************)
(* map and update_mapping_configuration (src/main.py:6-83).                *)
(***************************************************************************)
\* load_config_from_json is defined with two parameters (json_file_path,
\* config_section) and map calls it with one argument: the call raises
\* TypeError, which map's first try block catches.
load_config_from_json_parameters == 2
map_load_config_arguments == 1

load_config_from_json_raises ==
    map_load_config_arguments # load_config_from_json_parameters

\* update_mapping_configuration(config, center_1, center_2, scaling, angle)
update_mapping_configuration(cfg, fit) ==
    [mapped |-> TRUE,
     parameters |-> [kind |-> "stored", center_1 |-> fit.center_1,
                     center_2 |-> fit.center_2, scaling |-> fit.scaling_factor,
                     angle |-> fit.angle]]

\* map(config_file_path): the configuration is loaded (lines 16-36); when that
\* succeeds and the mapping is not yet done, the blobs located and matched in
\* the two images (lines 38-52) are fitted (lines 54-59) and the fit is stored
\* (lines 65-66).
map_call ==
    /\ pc = "idle"
    /\ call' = [op |-> "map"]
    /\ IF load_config_from_json_raises
       THEN /\ ret' = [kind |-> "map", outcome |-> "An error occurred while loading configuration"]
            /\ UNCHANGED config
       ELSE IF config.mapped
       THEN /\ ret' = [kind |-> "map", outcome |-> "Mapping data available. Skipping mapping."]
            /\ UNCHANGED config
       ELSE \E map_blob_1 \in FitPointSets, map_blob_2 \in FitPointSets, optimizer_ok \in BOOLEAN :
              LET fit == find_transform(map_blob_1, map_blob_2, optimizer_ok)
              IN IF fit.kind = "error"
                 THEN /\ ret' = [kind |-> "map", fit |-> fit,
                                 outcome |-> "An error occurred during transformation calculation"]
                      /\ UNCHANGED config
                 ELSE /\ ret' = [kind |-> "map", fit |-> fit, outcome |-> "updated"]
                      /\ config' = update_mapping_configuration(config, fit)
    /\ pc' = "done"
    /\ UNCHANGED <<used_indices, ordered_points, chosen>>

(***************************************************************************)
(* Properties of find_transform.                                           *)
(***************************************************************************)
IsFitCall == call.op = "find_transform"

HasTwoDistinct(points) == \E i, j \in 1..Len(points) : points[i] # points[j]

FitNorm1Squared == norm_squared(centered(call.points_1, mean(call.points_1)))
FitNorm2Squared == norm_squared(centered(call.points_2, mean(call.points_2)))

\* The returned angle minimises the objective over the exactly representable
\* angles, unless the start 0 is a stationary point that is not the minimum.
ObjectiveMinimised ==
    (IsFitCall /\ ret.kind = "value" /\ ret.scaling_factor.kind = "rat"
        /\ IsExactAngle(ret.angle)) =>
        LET a == centered(call.points_1, ret.center_1)
            b == centered(call.points_2, ret.center_2)
            scaled_1 == [i \in 1..Len(a) |-> PScale(a[i], ret.scaling_factor.v)]
        IN \/ fit_sin_part(a, b) = RZero /\ RLess(fit_cos_part(a, b), RZero)
           \/ \A t \in TAngles :
                ~RLess(calculate_rmse_after_rotation(<<t>>, scaled_1, b),
                       calculate_rmse_after_rotation(<<ret.angle>>, scaled_1, b))

\* C5: fitting a set with two distinct points against itself returns both
\* centres equal to the centroid, scale 1 and angle 0, and
\* transform_coordinates with those values returns the set unchanged.
C5_SelfFitIdentity ==
    (IsFitCall /\ call.points_1 = call.points_2 /\ HasTwoDistinct(call.points_1)) =>
        /\ call.optimizer_ok => ret.kind = "value"
        /\ ret.kind = "value" =>
             /\ ret.center_1 = ret.center_2
             /\ \A j \in 1..2 :
                  RMul(Rat(Len(call.points_1)), ret.center_1[j])
                      = SumSeq(Column(call.points_1, j))
             /\ ret.scaling_factor = [kind |-> "rat", v |-> ROne]
             /\ ret.angle = Angle0
             /\ transform_coordinates(call.points_1, ret.center_1, ret.center_2,
                                      ret.scaling_factor.v, ret.angle) = call.points_1

C5_Witness ==
    /\ IsFitCall
    /\ pc = "done"
    /\ call.points_1 = call.points_2
    /\ Len(call.points_1) >= 2
    /\ HasTwoDistinct(call.points_1)
    /\ ret.kind = "value"
    /\ ret.center_1 \notin {call.points_1[i] : i \in 1..Len(call.points_1)}

\* points_2 is points_1 turned by a quarter turn (counterclockwise when ccw)
\* and scaled by 2 about the centroid c of points_1.
IsQuarterTurnDoubled(ccw) ==
    /\ Len(call.points_1) = Len(call.points_2)
    /\ HasTwoDistinct(call.points_1)
    /\ LET c == mean(call.points_1)
       IN \A i \in 1..Len(call.points_1) :
            LET a == PSub(call.points_1[i], c)
                b == PSub(call.points_2[i], c)
            IN b = IF ccw THEN <<RMul(Rat(-2), a[2]), RMul(Rat(2), a[1])>>
                          ELSE <<RMul(Rat(2), a[2]), RMul(Rat(-2), a[1])>>

\* C6: when B is A turned by a quarter turn and scaled by 2 about the shared
\* centroid, find_transform(A, B) returns scale 2 and a quarter-turn angle
\* (the opposite of the turn from A to B), and transform_coordinates with the
\* returned values maps A onto B point for point.
C6_QuarterTurnRecovered ==
    \A ccw \in BOOLEAN :
        (IsFitCall /\ IsQuarterTurnDoubled(ccw)) =>
            /\ call.optimizer_ok => ret.kind = "value"
            /\ ret.kind = "value" =>
                 /\ ret.center_1 = ret.center_2
                 /\ ret.scaling_factor = [kind |-> "rat", v |-> Rat(2)]
                 /\ ret.angle = IF ccw THEN NegAngle(QuarterTurn) ELSE QuarterTurn
                 /\ transform_coordinates(call.points_1, ret.center_1, ret.center_2,
                                          ret.scaling_factor.v, ret.angle) = call.points_2

C6_Witness ==
    /\ IsFitCall
    /\ pc = "done"
    /\ IsQuarterTurnDoubled(TRUE)
    /\ ret.kind = "value"
    /\ ret.angle = NegAngle(QuarterTurn)
    /\ call.points_2 # call.points_1

\* C8: when the minimizer reports failure find_transform raises an error that
\* carries the minimizer's message and returns no transform; map stores
\* parameters and sets the mapped flag only after a fit that returned.
C8_FitFailureRaises ==
    /\ (IsFitCall /\ ~call.optimizer_ok) =>
         /\ ret.kind = "error"
         /\ ~objective_raises(call.points_1, call.points_2,
                scaling_factor_of(FitNorm1Squared, FitNorm2Squared)) =>
              ret.message = "Optimization failed: ABNORMAL_TERMINATION_IN_LNSRCH"
    /\ (call.op = "map" /\ ret.outcome = "An error occurred during transformation calculation") =>
         ~config.mapped
    /\ config.mapped => config.parameters.kind = "stored"
    /\ ~config.mapped => config.parameters.kind = "none"

C8_Witness ==
    /\ IsFitCall
    /\ pc = "done"
    /\ ~call.optimizer_ok
    /\ HasTwoDistinct(call.points_1)
    /\ HasTwoDistinct(call.points_2)
    /\ Len(call.points_1) = Len(call.points_2)
    /\ ret.kind = "error"
    /\ ret.message = "Optimization failed: ABNORMAL_TERMINATION_IN_LNSRCH"

\* C9: find_transform fails whenever either centred point cloud has zero norm,
\* and every scale it returns is finite and strictly positive.
C9_DegenerateRaises ==
    IsFitCall =>
        /\ (FitNorm1Squared = RZero \/ FitNorm2Squared = RZero) => ret.kind = "error"
        /\ ret.kind = "value" =>
             \/ ret.scaling_factor.kind = "rat" /\ RLess(RZero, ret.scaling_factor.v)
             \/ ret.scaling_factor.kind = "surd" /\ RLess(RZero, ret.scaling_factor.sq)

(***************************************************************************)
(* binary_kernel, median_filter and locate_blobs                           *)
(* (src/image_processing.py:11-21, 69-135).  An image is carried by its    *)
(* rank (image.ndim).                                                      *)
(***************************************************************************)
MEDIAN_KERNEL_SIZE == 3
DILATION_KERNEL_SIZE == 10

\* binary_kernel(operator_size, dim): disk, ball, or Python's None.
binary_kernel(operator_size, dim) ==
    IF dim = 2 THEN [kind |-> "disk", radius |-> operator_size]
    ELSE IF dim = 3 THEN [kind |-> "ball", radius |-> operator_size]
    ELSE None

\* skimage's median and dilation take footprint=None to mean their default
\* footprint (a full 3-wide box for median, the connectivity-1 cross for
\* dilation) and carry out the operation with it.
footprint_used(footprint, default) ==
    IF footprint.kind = "none" THEN [kind |-> default] ELSE footprint

Ranks == 1..MaxRank

binary_kernel_call ==
    /\ pc = "idle"
    /\ \E operator_size \in {MEDIAN_KERNEL_SIZE, DILATION_KERNEL_SIZE}, dim \in Ranks :
         /\ call' = [op |-> "binary_kernel", operator_size |-> operator_size, ndim |-> dim]
         /\ ret' = [kind |-> "value", value |-> binary_kernel(operator_size, dim),
                    steps |-> <<>>, footprint |-> None]
    /\ pc' = "done"
    /\ UNCHANGED <<used_indices, ordered_points, chosen, config>>

\* median_filter(image): median(image, binary_kernel(MEDIAN_KERNEL_SIZE, image.ndim))
median_filter_call ==
    /\ pc = "idle"
    /\ \E ndim \in Ranks :
         /\ call' = [op |-> "median_filter", ndim |-> ndim]
         /\ LET k == binary_kernel(MEDIAN_KERNEL_SIZE, ndim)
            IN ret' = [kind |-> "value", value |-> "filtered image",
                       steps |-> <<"median">>, footprint |-> footprint_used(k, "box")]
    /\ pc' = "done"
    /\ UNCHANGED <<used_indices, ordered_points, chosen, config>>

(***************************************************************************)
(* Images.  A pixel is a tuple of integer coordinates, one per axis; an    *)
(* image of rank ndim has the shape ImageShape(ndim) and two intensity     *)
(* levels, 1 on the pixels of image.bright and 0 elsewhere.                *)
(***************************************************************************)
ImageShape(ndim) ==
    IF ndim = 1 THEN <<3>>
    ELSE IF ndim = 2 THEN <<3, 3>>
    ELSE IF ndim = 3 THEN <<2, 2, 2>>
    ELSE [i \in 1..ndim |-> IF i = ndim THEN 2 ELSE 1]

RECURSIVE PixelsOf(_)
PixelsOf(shape) ==
    IF shape = <<>> THEN {<<>>}
    ELSE {<<x>> \o rest : x \in 0..(Head(shape) - 1), rest \in PixelsOf(Tail(shape))}

ImagesOfRank(ndim) ==
    {[ndim |-> ndim, bright |-> b] : b \in SUBSET PixelsOf(ImageShape(ndim))}

Images == UNION {ImagesOfRank(ndim) : ndim \in Ranks}

\* threshold_otsu of an integer image with the levels 0 and 1: the lower bin
\* centre 0; of an image of a single value: that value.
threshold_otsu(image) ==
    IF image.bright = {} THEN 0
    ELSE IF image.bright = PixelsOf(ImageShape(image.ndim)) THEN 1
    ELSE 0

\* binary_image = image > threshold
binarize(image, threshold) ==
    {p \in PixelsOf(ImageShape(image.ndim)) :
        (IF p \in image.bright THEN 1 ELSE 0) > threshold}

PixelSqDist(p, q) ==
    LET d == [i \in 1..Len(p) |-> Rat((p[i] - q[i]) * (p[i] - q[i]))]
    IN SumSeq(d)[1]

\* The squared radius of a footprint: disk(r) and ball(r) hold the offsets
\* within Euclidean distance r, the default cross those within distance 1.
footprint_radius_squared(footprint) ==
    IF footprint.kind \in {"disk", "ball"} THEN footprint.radius * footprint.radius ELSE 1

\* dilation(binary_image, footprint): a pixel is set when a set pixel lies
\* under the footprint centred on it.
dilation(binary_image, footprint, shape) ==
    {p \in PixelsOf(shape) :
        \E q \in binary_image : PixelSqDist(p, q) <= footprint_radius_squared(footprint)}

\* Raster (C) order of the pixels: lexicographic in the coordinates.
RECURSIVE RasterBefore(_, _)
RasterBefore(p, q) ==
    IF p = <<>> THEN FALSE
    ELSE Head(p) < Head(q) \/ (Head(p) = Head(q) /\ RasterBefore(Tail(p), Tail(q)))

FirstPixel(S) == CHOOSE p \in S : \A q \in S : q = p \/ RasterBefore(p, q)

\* Pixels p and q are neighbours under skimage's connectivity c: every
\* coordinate differs by at most 1, and at most c coordinates differ.
Adjacent(p, q, connectivity) ==
    /\ p # q
    /\ \A i \in 1..Len(p) : Abs(p[i] - q[i]) <= 1
    /\ Cardinality({i \in 1..Len(p) : p[i] # q[i]}) <= connectivity

RECURSIVE Grow(_, _, _)
Grow(S, binary_image, connectivity) ==
    LET next == S \cup {q \in binary_image : \E p \in S : Adjacent(p, q, connectivity)}
    IN IF next = S THEN S ELSE Grow(next, binary_image, connectivity)

RECURSIVE label_components(_, _)
label_components(remaining, connectivity) ==
    IF remaining = {} THEN <<>>
    ELSE LET component == Grow({FirstPixel(remaining)}, remaining, connectivity)
         IN <<component>> \o label_components(remaining \ component, connectivity)

\* Labelling with one orthogonal hop (4-connectivity in 2D, 6 in 3D).
label_face_connected(binary_image, ndim) == label_components(binary_image, 1)

\* label(binary_image): connectivity is left at its default, the rank of the
\* image (8-connectivity in 2D, 26 in 3D); labels are given in raster order
\* of each component's first pixel.  Component i of the result has label i.
label(binary_image, ndim) == label_components(binary_image, ndim)

\* region.centroid: the mean of the coordinates of the region's pixels.
RECURSIVE SumOver(_, _)
SumOver(S, i) ==
    IF S = {} THEN 0
    ELSE LET p == CHOOSE x \in S : TRUE IN p[i] + SumOver(S \ {p}, i)

centroid(component, ndim) ==
    [i \in 1..ndim |-> Norm(SumOver(component, i), Cardinality(component))]

\* regionprops(labels): one region per label, in ascending label order.
regionprops(labels, ndim) ==
    [l \in 1..Len(labels) |->
        [label |-> l, area |-> Cardinality(labels[l]), centroid |-> centroid(labels[l], ndim)]]

\* sorted(regions, key=area, reverse=True) is stable: regions of equal area
\* keep their order.  The first of the largest regions comes first.
RECURSIVE sorted_by_area(_)
sorted_by_area(regions) ==
    IF regions = <<>> THEN <<>>
    ELSE LET i == CHOOSE j \in 1..Len(regions) :
                    /\ \A m \in 1..Len(regions) : regions[m].area <= regions[j].area
                    /\ \A m \in 1..(j - 1) : regions[m].area < regions[j].area
             rest == [m \in 1..(Len(regions) - 1) |->
                        IF m < i THEN regions[m] ELSE regions[m + 1]]
         IN <<regions[i]>> \o sorted_by_area(rest)

\* The first num_regions regions in label order, without the sort.
get_largest_regions_unsorted(labels, num_regions, ndim) ==
    LET regions == regionprops(labels, ndim)
    IN SubSeq(regions, 1, IF num_regions < Len(regions) THEN num_regions ELSE Len(regions))

\* get_largest_regions_by_area(labels, num_regions): sorted_regions[:num_regions]
get_largest_regions_by_area(labels, num_regions, ndim) ==
    LET sorted_regions == sorted_by_area(regionprops(labels, ndim))
    IN SubSeq(sorted_regions, 1,
              IF num_regions < Len(sorted_regions) THEN num_regions ELSE Len(sorted_regions))

\* locate_blobs(image, number_of_blobs, source) up to napari.run() (lines
\* 114-127): the threshold, the dilation when source is 0, and the viewer
\* opened on the binary image.  napari.run() runs the viewer's event loop
\* and returns when the user closes the window.  napari.view_image refuses
\* image data of fewer than 2 dimensions with a ValueError, which ends the
\* call at line 126 before napari.run().
locate_blobs_call ==
    /\ pc = "idle"
    /\ \E image \in Images, source \in {0, 1}, number_of_blobs \in 1..MaxCount :
         /\ call' = [op |-> "locate_blobs", ndim |-> image.ndim, image |-> image,
                     source |-> source, number_of_blobs |-> number_of_blobs]
         /\ LET threshold == threshold_otsu(image)
                thresholded == binarize(image, threshold)
                k == binary_kernel(DILATION_KERNEL_SIZE, image.ndim)
                fp == IF source = 0 THEN footprint_used(k, "cross") ELSE None
                binary_image == IF source = 0
                                THEN dilation(thresholded, fp, ImageShape(image.ndim))
                                ELSE thresholded
                done == <<"threshold">> \o (IF source = 0 THEN <<"dilation">> ELSE <<>>)
            IN IF image.ndim < 2
               THEN /\ ret' = [kind |-> "error", error |-> "ValueError",
                               steps |-> done \o <<"view_image">>,
                               footprint |-> fp, binary_image |-> binary_image]
                    /\ pc' = "done"
               ELSE /\ ret' = [kind |-> "pending",
                               steps |-> done \o <<"viewer">>,
                               footprint |-> fp, binary_image |-> binary_image]
                    /\ pc' = "viewer"
    /\ UNCHANGED <<used_indices, ordered_points, chosen, config>>

\* The user closes the viewer window: napari.run() returns and locate_blobs
\* goes on (lines 129-135) to label the image, rank the regions and return
\* the centroids and the mean major axis length (nan when there is no
\* region); regionprops raises TypeError on a label image that is neither
\* 2-D nor 3-D.
locate_blobs_viewer_closed ==
    /\ pc = "viewer"
    /\ LET labels == label(ret.binary_image, call.ndim)
       IN ret' =
            IF call.ndim \notin {2, 3}
            THEN [kind |-> "error", error |-> "TypeError",
                  steps |-> ret.steps \o <<"label", "regionprops">>,
                  footprint |-> ret.footprint, binary_image |-> ret.binary_image,
                  labels |-> labels]
            ELSE LET regions ==
                         get_largest_regions_by_area(labels, call.number_of_blobs, call.ndim)
                 IN [kind |-> "value",
                     centroids |-> [i \in 1..Len(regions) |-> regions[i].centroid],
                     avg_major_axis_length |->
                         IF regions = <<>> THEN [kind |-> "nan"]
                         ELSE [kind |-> "mean major_axis_length",
                               of |-> {regions[i].label : i \in 1..Len(regions)}],
                     regions |-> regions,
                     steps |-> ret.steps \o <<"label", "regionprops", "sort">>,
                     footprint |-> ret.footprint, binary_image |-> ret.binary_image,
                     labels |-> labels]
    /\ pc' = "done"
    /\ UNCHANGED <<call, used_indices, ordered_points, chosen, config>>

UsesKernel ==
    \/ call.op \in {"binary_kernel", "median_filter"}
    \/ call.op = "locate_blobs" /\ call.source = 0

MorphologyDone == \E i \in 1..Len(ret.steps) : ret.steps[i] \in {"median", "dilation"}

\* C10: a dimension other than 2 and 3 handed to binary_kernel is reported as
\* an error: no kernel value is returned and no morphological operation is
\* carried out with it.
C10_DimensionMismatchRaises ==
    (UsesKernel /\ call.ndim \notin {2, 3}) =>
        /\ ret.kind = "error"
        /\ ~MorphologyDone

(***************************************************************************)
(* Properties of locate_blobs.                                             *)
(***************************************************************************)
IsLocateCall == call.op = "locate_blobs"

LocateReturned == IsLocateCall /\ pc = "done" /\ ret.kind = "value"

AreaOf(l) == Cardinality(ret.labels[l])

ReturnedLabels == {ret.regions[i].label : i \in 1..Len(ret.regions)}

\* C11: for a labelled image with k components and requested_count >= 1,
\* locate_blobs returns the centroids of min(k, requested_count) distinct
\* components in non-increasing order of area, no omitted component is larger
\* than a returned one, components of equal area come in ascending label
\* order, and with k < requested_count all k are returned without an error.
C11_LargestByAreaStable ==
    (IsLocateCall /\ pc = "done" /\ call.ndim \in {2, 3}) =>
        LET k == Len(ret.labels)
            n == call.number_of_blobs
        IN /\ ret.kind = "value"
           /\ Len(ret.centroids) = IF k < n THEN k ELSE n
           /\ Len(ret.regions) = Len(ret.centroids)
           /\ Cardinality(ReturnedLabels) = Len(ret.regions)
           /\ ReturnedLabels \subseteq 1..k
           /\ \A i \in 1..Len(ret.regions) :
                /\ ret.regions[i].area = AreaOf(ret.regions[i].label)
                /\ \A j \in 1..call.ndim :
                     ret.centroids[i][j][1] * ret.regions[i].area
                        = ret.centroids[i][j][2] * SumOver(ret.labels[ret.regions[i].label], j)
           /\ \A i, j \in 1..Len(ret.regions) :
                i < j =>
                    /\ ret.regions[i].area >= ret.regions[j].area
                    /\ ret.regions[i].area = ret.regions[j].area
                         => ret.regions[i].label < ret.regions[j].label
           /\ \A l \in (1..k) \ ReturnedLabels :
                \A i \in 1..Len(ret.regions) : AreaOf(l) <= ret.regions[i].area

\* Three components, two requested: the largest has the highest label and is
\* returned first, and the second returned one ties with the omitted one.
C11_Witness ==
    /\ LocateReturned
    /\ Len(ret.labels) = 3
    /\ call.number_of_blobs = 2
    /\ ret.regions[1].label = 3
    /\ ret.regions[2].label = 1
    /\ AreaOf(1) = AreaOf(2)
    /\ AreaOf(3) > AreaOf(1)

HasLabels == IsLocateCall /\ pc = "done" /\ "labels" \in DOMAIN ret

LabelOf(p) == CHOOSE l \in 1..Len(ret.labels) : p \in ret.labels[l]

\* p and q touch only diagonally: neighbours that share no face.
TouchDiagonally(p, q) ==
    Adjacent(p, q, Len(p)) /\ ~Adjacent(p, q, 1)

\* C13 as stated: two foreground pixels that touch only diagonally and have
\* no path of face neighbours between them are in different components.
C13_FaceConnectivity ==
    HasLabels =>
        \A p, q \in ret.binary_image :
            (TouchDiagonally(p, q) /\ q \notin Grow({p}, ret.binary_image, 1))
                => LabelOf(p) # LabelOf(q)

\* C13 (amended): the components are those of full connectivity (8 in 2D, 26
\* in 3D): every foreground pixel has one label, two foreground pixels that
\* touch, by a face, an edge or a corner, have the same label, every pixel of
\* a component of several pixels touches another pixel of it, and pixels
\* that touch only diagonally are reported as one region.
C13_FullConnectivity ==
    HasLabels =>
        /\ UNION {ret.labels[l] : l \in 1..Len(ret.labels)} = ret.binary_image
        /\ \A l, m \in 1..Len(ret.labels) :
             /\ ret.labels[l] # {}
             /\ l # m => ret.labels[l] \cap ret.labels[m] = {}
        /\ \A p, q \in ret.binary_image :
             Adjacent(p, q, call.ndim) => LabelOf(p) = LabelOf(q)
        /\ \A l \in 1..Len(ret.labels) :
             Cardinality(ret.labels[l]) > 1 =>
                \A p \in ret.labels[l] :
                    \E q \in ret.labels[l] : Adjacent(p, q, call.ndim)

\* Two foreground pixels of a 2D image that touch only at a corner, labelled
\* as one component and returned as one region.
C13_Witness ==
    /\ LocateReturned
    /\ call.ndim = 2
    /\ call.source = 1
    /\ ret.binary_image = {<<0, 0>>, <<1, 1>>}
    /\ Len(ret.labels) = 1
    /\ Len(ret.centroids) = 1
    /\ ret.regions[1].area = 2

\* C14: a call of locate_blobs runs to its return without opening a viewer
\* and without waiting for the user to close a window.
C14_NoViewerWait ==
    IsLocateCall =>
        /\ pc # "viewer"
        /\ \A i \in 1..Len(ret.steps) : ret.steps[i] \notin {"viewer", "view_image"}

(***************************************************************************)
(* Properties of find_closest_regions.                                     *)
(***************************************************************************)
IsMatchCall == call.op = "find_closest_regions"

Injective(f) == \A i, j \in 1..Len(f) : f[i] = f[j] => i = j

\* The greedy matching as a function of (R, C) alone: the indices chosen for
\* reference points k..Len(R) once the indices in used are taken.
RECURSIVE greedy_indices(_, _, _, _)
greedy_indices(R, C, used, k) ==
    IF k > Len(R) THEN <<>>
    ELSE LET cand == {i \in 1..Len(C) : i \notin used}
             best == CHOOSE i \in cand :
                        \A m \in cand :
                            /\ ~RLess(SqDist(R[k], C[m]), SqDist(R[k], C[i]))
                            /\ (m < i => RLess(SqDist(R[k], C[i]), SqDist(R[k], C[m])))
         IN <<best>> \o greedy_indices(R, C, used \cup {best}, k + 1)

\* C1: with len(C) >= len(R), find_closest_regions returns len(R) points, the
\* k-th being the element of C at the k-th chosen index, no index of C chosen
\* twice, and the result is the one fixed by (R, C) alone; while the loop runs
\* the chosen indices are pairwise distinct and are exactly the used ones.
C1_MatchInjective ==
    (IsMatchCall /\ Len(call.auto_points) >= Len(call.napari_points)) =>
        /\ Injective(chosen)
        /\ Len(chosen) = Len(ordered_points)
        /\ used_indices = {chosen[k] : k \in 1..Len(chosen)}
        /\ \A k \in 1..Len(chosen) :
             /\ chosen[k] \in 1..Len(call.auto_points)
             /\ ordered_points[k] = call.auto_points[chosen[k]]
        /\ pc = "done" =>
             /\ ret.kind = "value"
             /\ Len(ret.value) = Len(call.napari_points)
             /\ ret.value = ordered_points
             /\ chosen = greedy_indices(call.napari_points, call.auto_points, {}, 1)

\* Two reference points whose nearest candidate is the same one, and a result.
C1_Witness ==
    /\ IsMatchCall
    /\ pc = "done"
    /\ ret.kind = "value"
    /\ Len(call.napari_points) = 2
    /\ Len(call.auto_points) >= 2
    /\ closest_global_idx(call.napari_points[2], call.auto_points, {}) = chosen[1]
    /\ chosen[2] # chosen[1]

ChosenBefore(k) == {chosen[j] : j \in 1..(k - 1)}

IsPermutation(C, R) ==
    /\ Len(C) = Len(R)
    /\ \E f \in [1..Len(R) -> 1..Len(R)] :
         /\ \A i, j \in 1..Len(R) : f[i] = f[j] => i = j
         /\ \A i \in 1..Len(R) : C[f[i]] = R[i]

NearestRemaining ==
    IsMatchCall =>
        /\ \A k \in 1..Len(chosen) :
             /\ chosen[k] \in (1..Len(call.auto_points)) \ ChosenBefore(k)
             /\ ordered_points[k] = call.auto_points[chosen[k]]
             /\ \A m \in (1..Len(call.auto_points)) \ ChosenBefore(k) :
                  ~RLess(SqDist(call.napari_points[k], call.auto_points[m]),
                         SqDist(call.napari_points[k], call.auto_points[chosen[k]]))
        /\ (/\ pc = "done"
            /\ IsPermutation(call.auto_points, call.napari_points)
            /\ Injective(call.napari_points)) =>
                /\ ret.kind = "value"
                /\ ret.value = call.napari_points

ChoicesKept ==
    (IsMatchCall /\ pc = "match") =>
        /\ call' = call
        /\ Len(chosen') \in {Len(chosen), Len(chosen) + 1}
        /\ SubSeq(chosen', 1, Len(chosen)) = chosen
        /\ SubSeq(ordered_points', 1, Len(ordered_points)) = ordered_points
        /\ used_indices \subseteq used_indices'

\* C12: find_closest_regions takes the reference points in order, and the
\* k-th output is a candidate at least as near to the k-th reference point as
\* every candidate whose index was not chosen for references 0..k-1, itself
\* one of those; a choice once made is never revised.  When C is a
\* permutation of R and the points of R are pairwise distinct, the output
\* equals R.
C12_GreedyNearestRemaining == []NearestRemaining /\ [][ChoicesKept]_vars

\* C is R in reverse order, two distinct points: each reference point gets
\* its own copy back, the second choice made from the one remaining index.
C12_Witness ==
    /\ IsMatchCall
    /\ pc = "done"
    /\ Len(call.napari_points) = 2
    /\ call.napari_points[1] # call.napari_points[2]
    /\ call.auto_points = <<call.napari_points[2], call.napari_points[1]>>
    /\ chosen = <<2, 1>>
    /\ ret.kind = "value"
    /\ ret.value = call.napari_points

\* C7: with fewer candidates than reference points find_closest_regions never
\* returns a value: it consumes every candidate once and then ends in the
\* error raised on the empty pool.
C7_PoolExhaustedRaises ==
    (IsMatchCall /\ Len(call.auto_points) < Len(call.napari_points)) =>
        /\ ret.kind # "value"
        /\ Injective(chosen)
        /\ Len(ordered_points) <= Len(call.auto_points)
        /\ pc = "done" =>
             /\ ret.kind = "error"
             /\ used_indices = 1..Len(call.auto_points)
             /\ Len(ordered_points) = Len(call.auto_points)

C7_Witness ==
    /\ IsMatchCall
    /\ pc = "done"
    /\ Len(call.auto_points) >= 1
    /\ Len(call.auto_points) < Len(call.napari_points)
    /\ ret.kind = "error"
    /\ Len(ordered_points) = Len(call.auto_points)

(***************************************************************************)
(* Properties of add_z.                                                    *)
(***************************************************************************)
IsAddZCall == call.op = "add_z"

\* The z-index of the i-th row (1-based) of the result.
ZOf(i) == ret.value[i][1][1]

\* C2 as stated: the half-range term is floor((n-1)/2) * spacing.
C2_FloorBeforeMultiply ==
    (IsAddZCall /\ Len(call.points) >= 1 /\ call.z_spacing >= 0) =>
        \A i \in 1..Len(call.points) :
            ZOf(i) = ((call.z_size - 1) \div 2)
                        + ((Len(call.points) - 1) \div 2) * call.z_spacing
                        - (i - 1) * call.z_spacing

\* C2 (amended): for n >= 1 points, spacing >= 0 and depth >= 1 the i-th point
\* (0-indexed) gets z-index floor((depth-1)/2) + floor((n-1)*spacing/2)
\* - i*spacing: the floor is taken after the multiplication by spacing.
C2_FloorAfterMultiply ==
    (IsAddZCall /\ Len(call.points) >= 1 /\ call.z_spacing >= 0) =>
        /\ Len(ret.value) = Len(call.points)
        /\ \A i \in 1..Len(call.points) :
            /\ ZOf(i) = ((call.z_size - 1) \div 2)
                        + (((Len(call.points) - 1) * call.z_spacing) \div 2)
                        - (i - 1) * call.z_spacing
            /\ ret.value[i][2] = call.points[i][1]
            /\ ret.value[i][3] = call.points[i][2]

\* An even number of points at an odd spacing of 3: the two formulas differ.
C2_Witness ==
    /\ IsAddZCall
    /\ pc = "done"
    /\ Len(call.points) = 4
    /\ call.z_spacing = 3
    /\ ZOf(1) = ((call.z_size - 1) \div 2) + 4

\* C3 as stated: for odd depth the z-indices are symmetric around
\* m = (depth-1)/2 for every n and every integer spacing.
C3_SymmetricAlways ==
    (IsAddZCall /\ Len(call.points) >= 1 /\ call.z_size % 2 = 1) =>
        \A i \in 1..Len(call.points) :
            ZOf(i) + ZOf(Len(call.points) + 1 - i) = call.z_size - 1

\* C3 (amended): for odd depth, z[i] + z[n-1-i] = 2*m whenever (n-1)*spacing
\* is even; when (n-1)*spacing is odd the sum is 2*m - 1 for spacing > 0 and
\* 2*m + 1 for spacing < 0 (the half-range is truncated toward zero).
C3_SymmetricWhenEven ==
    (IsAddZCall /\ Len(call.points) >= 1 /\ call.z_size % 2 = 1) =>
        \A i \in 1..Len(call.points) :
            LET total == ZOf(i) + ZOf(Len(call.points) + 1 - i)
                span == (Len(call.points) - 1) * call.z_spacing
            IN total = (call.z_size - 1)
                        + (IF span % 2 = 0 THEN 0
                           ELSE IF call.z_spacing > 0 THEN -1 ELSE 1)

\* Three or more points at a nonzero spacing in a volume of odd depth.
C3_Witness ==
    /\ IsAddZCall
    /\ pc = "done"
    /\ call.z_size % 2 = 1
    /\ Len(call.points) >= 3
    /\ call.z_spacing = 2
    /\ ZOf(1) + ZOf(Len(call.points)) = call.z_size - 1
    /\ ZOf(1) # ZOf(Len(call.points))

Init ==
    /\ pc = "idle"
    /\ call = NoCall
    /\ ret = None
    /\ used_indices = {}
    /\ ordered_points = <<>>
    /\ chosen = <<>>
    /\ config = [mapped |-> FALSE, parameters |-> None]

Next ==
    \/ find_closest_regions_call
    \/ find_closest_regions_step
    \/ find_closest_regions_return
    \/ add_z_call
    \/ transform_coordinates_call
    \/ find_transform_call
    \/ map_call
    \/ binary_kernel_call
    \/ median_filter_call
    \/ locate_blobs_call
    \/ locate_blobs_viewer_closed
    \/ Finish

Spec == Init /\ [][Next]_vars

====
